---- MODULE Spec2Model ----
(***************************************************************************)
(* Model of transcribe_pro.py: the batch driver main(), the transcription  *)
(* step transcribe_audio() and the summary aggregator summarize_text().    *)
(*                                                                         *)
(* Text is a sequence of tokens.  A token is either a whitespace token     *)
(* (" " or "\n") or a string without whitespace, so str.split(),           *)
(* str.strip(), str.join() and str.split(marker) are computed on token     *)
(* sequences the way Python computes them on characters.  A file name is   *)
(* a sequence of tokens whose last token is the extension (".mp3").        *)
(***************************************************************************)
EXTENDS Integers, Sequences, FiniteSets, TLC

\* ------------------------------------------------------------------ bounds
MaxFiles == 2        \* files in the input folder
MaxRuns == 2         \* consecutive runs of main() over the same folders
MaxFaults == 2       \* service calls that raise, over all the runs
MaxTextLen == 5      \* tokens of a text of the chunking runs
MaxL == 3            \* largest max_chunk_length of the chunking runs

\* --------------------------------------------------------- program constants
MaxChunkLength == 512

SUPPORTED_EXTENSIONS == {".mp3", ".wav", ".m4a", ".mp4", ".mov", ".avi", ".mkv"}
Sentinel == <<"[Gagal", " ", "membuat", " ", "ringkasan]">>
SummaryMarker == <<"---", " ", "RINGKASAN", " ", "---">>
TranscriptMarker == <<"---", " ", "TRANSKRIPSI", " ", "LENGKAP", " ", "---">>
CleanedSuffix == "_cleaned"

\* ------------------------------------------------------------ string helpers
Min(a, b) == IF a < b THEN a ELSE b

IsWs(t) == t \in {" ", "\n"}

\* str.split(): the maximal runs of non-whitespace, each run one word
RECURSIVE SplitAcc(_, _, _, _)
SplitAcc(text, i, cur, acc) ==
  IF i > Len(text)
    THEN IF cur = "" THEN acc ELSE Append(acc, cur)
    ELSE IF IsWs(text[i])
      THEN SplitAcc(text, i + 1, "", IF cur = "" THEN acc ELSE Append(acc, cur))
      ELSE SplitAcc(text, i + 1, cur \o text[i], acc)

Split(text) == SplitAcc(text, 1, "", <<>>)

\* sep.join(parts), every part a text
RECURSIVE Join(_, _)
Join(sep, parts) ==
  IF parts = <<>> THEN <<>>
  ELSE IF Len(parts) = 1 THEN parts[1]
  ELSE parts[1] \o <<sep>> \o Join(sep, Tail(parts))

\* ' '.join(words), every word a string
JoinWords(words) == Join(" ", [k \in 1..Len(words) |-> <<words[k]>>])

\* str.strip()
RECURSIVE LStrip(_)
LStrip(t) == IF t # <<>> /\ IsWs(t[1]) THEN LStrip(Tail(t)) ELSE t

RECURSIVE RStrip(_)
RStrip(t) ==
  IF t # <<>> /\ IsWs(t[Len(t)]) THEN RStrip(SubSeq(t, 1, Len(t) - 1)) ELSE t

Strip(t) == RStrip(LStrip(t))

\* s[a:b] of Python, 0 <= a <= b
Slice(s, a, b) == SubSeq(s, a + 1, Min(b, Len(s)))

\* text.split(marker)[-1]: what follows the last occurrence of marker
LastPart(text, marker) ==
  LET hits == {i \in 1..(Len(text) - Len(marker) + 1) :
                 SubSeq(text, i, i + Len(marker) - 1) = marker}
  IN IF hits = {} THEN text
     ELSE LET last == CHOOSE i \in hits : \A j \in hits : j <= i
          IN SubSeq(text, last + Len(marker), Len(text))

\* "%.2f" of a time kept in hundredths of a second
Fmt2(cs) ==
  ToString(cs \div 100) \o "." \o ToString((cs % 100) \div 10) \o ToString(cs % 10)

\* ------------------------------------------------------------ summarize_text
\* range(0, n, step) has ceil(n / step) elements
RangeLen(n, step) == (n + step - 1) \div step

\* variant: a trailing chunk of fewer than max_chunk_length words is dropped
ChunksDropTail(words, max_chunk_length) ==
  [k \in 1..(Len(words) \div max_chunk_length) |->
     JoinWords(Slice(words, (k - 1) * max_chunk_length, k * max_chunk_length))]

\* line 31: [' '.join(words[i:i + L]) for i in range(0, len(words), L)]
Chunks(words, max_chunk_length) ==
  [k \in 1..RangeLen(Len(words), max_chunk_length) |->
     JoinWords(Slice(words, (k - 1) * max_chunk_length, k * max_chunk_length))]

\* the stub summarization service: one summary per chunk, a function of the chunk
RECURSIVE Flat(_)
Flat(t) == IF t = <<>> THEN "" ELSE t[1] \o Flat(Tail(t))

Summarizer(chunks) == [k \in 1..Len(chunks) |-> <<"S(" \o Flat(chunks[k]) \o ")">>]

\* lines 34-39: the summaries of the chunks, joined
SummariesOf(chunks) ==
  [raised |-> FALSE, chunks |-> chunks, value |-> Join(" ", Summarizer(chunks))]

\* variant: no try/except, the summarizer exception leaves summarize_text
SummarizeNoCatch(text, max_chunk_length, serviceOk) ==
  IF serviceOk
    THEN SummariesOf(Chunks(Split(text), max_chunk_length))
    ELSE [raised |-> TRUE, chunks |-> Chunks(Split(text), max_chunk_length),
          value |-> <<>>]

\* variant: the except branch returns an empty string
SummarizeEmptyOnFailure(text, max_chunk_length, serviceOk) ==
  IF serviceOk
    THEN SummariesOf(Chunks(Split(text), max_chunk_length))
    ELSE [raised |-> FALSE, chunks |-> Chunks(Split(text), max_chunk_length),
          value |-> <<>>]

\* lines 26-42; serviceOk = FALSE is the summarizer raising
summarize_text(text, max_chunk_length, serviceOk) ==
  IF serviceOk
    THEN SummariesOf(Chunks(Split(text), max_chunk_length))
    ELSE [raised |-> FALSE, chunks |-> Chunks(Split(text), max_chunk_length),
          value |-> Sentinel]

\* ------------------------------------------------------------- file names
File_a_mp3 == <<"a", ".mp3">>
File_a_wav == <<"a", ".wav">>
File_a_cleaned_mp3 == <<"a", "_cleaned", ".mp3">>
File_s_MP3 == <<"s", ".MP3">>
File_n_txt == <<"n", ".txt">>

\* the media files the input folder may hold, in one os.listdir order
MediaOrder == <<File_a_mp3, File_a_wav, File_a_cleaned_mp3, File_s_MP3>>

Extensions == SUPPORTED_EXTENSIONS \cup {".MP3", ".txt"}

\* str.lower() on the tokens of the file names above
Lower(t) == IF t = ".MP3" THEN ".mp3" ELSE t

Last(s) == s[Len(s)]
Front(s) == SubSeq(s, 1, Len(s) - 1)

\* os.path.splitext(name)
splitext(name) ==
  IF Len(name) >= 2 /\ Last(name) \in Extensions
    THEN <<Front(name), Last(name)>>
    ELSE <<name, "">>

\* line 125: f.lower().endswith(SUPPORTED_EXTENSIONS)
Supported(name) == name # <<>> /\ Lower(Last(name)) \in SUPPORTED_EXTENSIONS

RECURSIVE Filter(_)
Filter(names) ==
  IF names = <<>> THEN <<>>
  ELSE IF Supported(names[1]) THEN <<names[1]>> \o Filter(Tail(names))
  ELSE Filter(Tail(names))

NameStr(name) == Flat(name)

Path(dir, name) == [dir |-> dir, name |-> name]
NoPath == Path("", <<>>)

\* ---------------------------------------------------------------- services
\* the audio an input file holds; the file with stem "s" holds silence
AudioOf(name) == [id |-> NameStr(name), n |-> IF name[1] = "s" THEN 0 ELSE 2]

\* the stub noise-reduction service
reduce_noise(audio) == [id |-> "dn(" \o audio.id \o ")", n |-> audio.n]

AudioAt(path, cleaned) ==
  IF path.dir = "cleaned" THEN cleaned[path.name] ELSE AudioOf(path.name)

\* the stub speech-recognition service: text and time-ascending segments
Segments(audio) ==
  [k \in 1..audio.n |->
     [start |-> (k - 1) * 150, end |-> k * 150,
      text |-> <<" ", "w" \o ToString(k) \o ":" \o audio.id>>]]

WhisperText(audio) ==
  LET segs == Segments(audio)
  IN Join(" ", [k \in 1..Len(segs) |-> Strip(segs[k].text)])

Whisper(audio) ==
  [text |-> IF audio.n = 0 THEN <<>> ELSE <<" ">> \o WhisperText(audio),
   segments |-> Segments(audio)]

\* lines 73-76
FormatSegment(seg) ==
  <<"[" \o Fmt2(seg.start) \o "s", " ", "-", " ", Fmt2(seg.end) \o "s]", " ">>
    \o Strip(seg.text)

FormatTranscription(segments) ==
  Join("\n", [k \in 1..Len(segments) |-> FormatSegment(segments[k])])

\* ---------------------------------------------------------- transcribe_audio
\* lines 55-57
BaseName(file_path) ==
  LET base_name == splitext(file_path.name)[1]
  IN IF base_name # <<>> /\ Last(base_name) = CleanedSuffix
       THEN Front(base_name) ELSE base_name

OutputName(file_path) == BaseName(file_path) \o <<".txt">>

Exists(fs, name) == name \in DOMAIN fs

WriteFile(fs, name, content) ==
  [n \in (DOMAIN fs) \cup {name} |-> IF n = name THEN content ELSE fs[n]]

\* lines 61-66: the artifact exists
Skip(name, out) ==
  [success |-> TRUE, output_path |-> Path("output", name),
   full_text |-> Strip(LastPart(out[name], TranscriptMarker)), out |-> out,
   invoked |-> FALSE, raised |-> FALSE, skipped |-> TRUE]

\* variant: the formatted lines are returned as the text
TranscribedReturnsFormatted(name, out, result) ==
  [success |-> TRUE, output_path |-> Path("output", name),
   full_text |-> FormatTranscription(result.segments),
   out |-> WriteFile(out, name, FormatTranscription(result.segments)),
   invoked |-> TRUE, raised |-> FALSE, skipped |-> FALSE]

\* lines 68-82: the service answered
Transcribed(name, out, result) ==
  [success |-> TRUE, output_path |-> Path("output", name),
   full_text |-> result.text,
   out |-> WriteFile(out, name, FormatTranscription(result.segments)),
   invoked |-> TRUE, raised |-> FALSE, skipped |-> FALSE]

\* lines 83-85: the service raised
Raised(name, out) ==
  [success |-> FALSE, output_path |-> Path("output", name),
   full_text |-> <<>>, out |-> out,
   invoked |-> TRUE, raised |-> TRUE, skipped |-> FALSE]

\* variant: no os.path.exists test
TranscribeNoSkip(file_path, out, cleaned, sttOk) ==
  IF ~sttOk
    THEN Raised(OutputName(file_path), out)
    ELSE Transcribed(OutputName(file_path), out, Whisper(AudioAt(file_path, cleaned)))

\* variant: the artifact is opened for writing before the service call
TranscribeWriteBeforeCall(file_path, out, cleaned, sttOk) ==
  IF Exists(out, OutputName(file_path))
    THEN Skip(OutputName(file_path), out)
  ELSE IF ~sttOk
    THEN Raised(OutputName(file_path), WriteFile(out, OutputName(file_path), <<>>))
    ELSE Transcribed(OutputName(file_path), out, Whisper(AudioAt(file_path, cleaned)))

\* lines 52-85; sttOk = FALSE is model.transcribe raising
transcribe_audio(file_path, out, cleaned, sttOk) ==
  IF Exists(out, OutputName(file_path))
    THEN Skip(OutputName(file_path), out)
  ELSE IF ~sttOk
    THEN Raised(OutputName(file_path), out)
    ELSE Transcribed(OutputName(file_path), out, Whisper(AudioAt(file_path, cleaned)))

\* ------------------------------------------------------------ noise cleaning
DenoiseOutcomes == {"ok", "read_raises", "reduce_raises", "write_raises"}

CleanedName(filename) == splitext(filename)[1] \o <<CleanedSuffix, ".wav">>

\* variant: the cleaned path is used even when denoising raised
CleanNoiseUseCleanedAnyway(filename, cleaned, outcome) ==
  IF Exists(cleaned, CleanedName(filename))
    THEN [file_to_transcribe |-> Path("cleaned", CleanedName(filename)),
          cleaned |-> cleaned, status |-> "reused"]
  ELSE IF outcome = "ok"
    THEN [file_to_transcribe |-> Path("cleaned", CleanedName(filename)),
          cleaned |-> WriteFile(cleaned, CleanedName(filename),
                                reduce_noise(AudioOf(filename))),
          status |-> "cleaned"]
    ELSE [file_to_transcribe |-> Path("cleaned", CleanedName(filename)),
          cleaned |-> WriteFile(cleaned, CleanedName(filename), AudioOf(filename)),
          status |-> outcome]

\* lines 140-153, clean_noise enabled; any other outcome than "ok" is a raise
CleanNoise(filename, cleaned, outcome) ==
  IF Exists(cleaned, CleanedName(filename))
    THEN [file_to_transcribe |-> Path("cleaned", CleanedName(filename)),
          cleaned |-> cleaned, status |-> "reused"]
  ELSE IF outcome = "ok"
    THEN [file_to_transcribe |-> Path("cleaned", CleanedName(filename)),
          cleaned |-> WriteFile(cleaned, CleanedName(filename),
                                reduce_noise(AudioOf(filename))),
          status |-> "cleaned"]
    ELSE [file_to_transcribe |-> Path("audio", filename), cleaned |-> cleaned,
          status |-> outcome]

\* lines 137-138, clean_noise disabled
NoCleaning(filename, cleaned) ==
  [file_to_transcribe |-> Path("audio", filename), cleaned |-> cleaned,
   status |-> "off"]

\* lines 169-174
SummarizedLayout(summary, original_content) ==
  SummaryMarker \o <<"\n">> \o summary \o <<"\n", "\n">>
    \o TranscriptMarker \o <<"\n">> \o original_content

\* ------------------------------------------------------------------- state
VARIABLES
  folderExists,      \* os.path.isdir(args.audio_folder)
  clean_noise,       \* --clean_noise, the same in every run
  dirFiles,          \* the files of the input folder, in os.listdir order
  outputDirExists,   \* the output folder is on disk
  cleanedDirExists,  \* <audio_folder>/cleaned is on disk
  outFs,             \* output folder: artifact name -> content
  cleanedFs,         \* cleaned folder: file name -> audio
  pc,                \* position of the running main(), "idle" between runs
  run,               \* runs of main() that have ended
  args,              \* the parsed flags of the running main()
  whisperLoaded,     \* line 103 has run
  summarizerLoaded,  \* line 111 has run
  audio_files,
  idx,               \* position of the for loop in audio_files, from 1
  success_count,
  failure_count,
  it,                \* what the last loop iteration did
  sttCalls,          \* paths given to model.transcribe in this run
  faults,            \* service calls that have raised, in this run or earlier
  exitReason,        \* why main() returned early
  prevOut,           \* the artifacts the run before this one left
  prevArgs,          \* the flags of the run before this one
  cText, cL, cChunks, cDone   \* input and result of a chunking run

mainVars ==
  <<folderExists, clean_noise, dirFiles, outputDirExists, cleanedDirExists, outFs, cleanedFs,
    pc, run, args, whisperLoaded, summarizerLoaded, audio_files, idx,
    success_count, failure_count, it, sttCalls, faults, exitReason, prevOut, prevArgs>>
chunkVars == <<cText, cL, cChunks, cDone>>
vars == <<mainVars, chunkVars>>

EmptyFs == [n \in {} |-> <<>>]

NoArgs == [clean_noise |-> FALSE, summarize |-> FALSE]

NoIt ==
  [filename |-> <<>>, denoise |-> "", input |-> NoPath, sttInvoked |-> FALSE,
   sttRaised |-> FALSE, skipped |-> FALSE, success |-> FALSE,
   output_path |-> NoPath, full_text |-> <<>>, summInvoked |-> FALSE,
   summText |-> <<>>, summRaised |-> FALSE, summary |-> <<>>, outBefore |-> EmptyFs,
   trOut |-> EmptyFs]

Reverse(s) == [k \in 1..Len(s) |-> s[Len(s) + 1 - k]]

Range(s) == {s[k] : k \in 1..Len(s)}

\* the input folder holds at most MaxFiles media files and a text file that is
\* no media; os.listdir gives them in one order or in the opposite one
Listings ==
  {SelectSeq(o, LAMBDA f : f \in S) \o <<File_n_txt>> :
     o \in {MediaOrder, Reverse(MediaOrder)},
     S \in {T \in SUBSET Range(MediaOrder) : Cardinality(T) <= MaxFiles}}

ProcessMemoryReset ==
  /\ whisperLoaded' = FALSE
  /\ summarizerLoaded' = FALSE
  /\ audio_files' = <<>>
  /\ idx' = 0
  /\ success_count' = 0
  /\ failure_count' = 0
  /\ it' = NoIt
  /\ sttCalls' = <<>>
  /\ exitReason' = ""

MainInit ==
  /\ folderExists \in BOOLEAN
  /\ clean_noise \in BOOLEAN
  /\ dirFiles \in (IF folderExists THEN Listings ELSE {<<>>})
  /\ outputDirExists = FALSE
  /\ cleanedDirExists = FALSE
  /\ outFs = EmptyFs
  /\ cleanedFs = EmptyFs
  /\ pc = "idle"
  /\ run = 0
  /\ args = NoArgs
  /\ whisperLoaded = FALSE
  /\ summarizerLoaded = FALSE
  /\ audio_files = <<>>
  /\ idx = 0
  /\ success_count = 0
  /\ failure_count = 0
  /\ it = NoIt
  /\ sttCalls = <<>>
  /\ faults = 0
  /\ exitReason = ""
  /\ prevOut = EmptyFs
  /\ prevArgs = NoArgs

ChunkIdle == cText = <<>> /\ cL = 1 /\ cChunks = <<>> /\ cDone = FALSE

Init == MainInit /\ ChunkIdle

\* -------------------------------------------------------------------- main
\* lines 89-97: a run starts and parses its flags
ParseArgs(summarize) ==
  /\ pc = "idle"
  /\ run < MaxRuns
  /\ pc' = "parsed"
  /\ args' = [clean_noise |-> clean_noise, summarize |-> summarize]
  /\ UNCHANGED <<folderExists, clean_noise, dirFiles, outputDirExists, cleanedDirExists, outFs,
                 cleanedFs, run, whisperLoaded, summarizerLoaded, audio_files, idx,
                 success_count, failure_count, it, sttCalls, faults, exitReason,
                 prevOut, prevArgs, chunkVars>>

\* lines 99-112
LoadModels ==
  /\ pc = "parsed"
  /\ pc' = "loaded"
  /\ whisperLoaded' = TRUE
  /\ summarizerLoaded' = args.summarize
  /\ UNCHANGED <<folderExists, clean_noise, dirFiles, outputDirExists, cleanedDirExists, outFs,
                 cleanedFs, run, args, audio_files, idx, success_count,
                 failure_count, it, sttCalls, faults, exitReason, prevOut, prevArgs,
                 chunkVars>>

\* os.listdir(args.audio_folder): the files and the cleaned folder
ListDir ==
  dirFiles \o (IF cleanedDirExists' THEN <<<<"cleaned">>>> ELSE <<>>)

\* lines 114-134
CheckAndDiscover ==
  /\ pc = "loaded"
  /\ IF ~folderExists
       THEN /\ pc' = "returned"
            /\ exitReason' = "no_folder"
            /\ UNCHANGED <<outputDirExists, cleanedDirExists, audio_files, idx>>
       ELSE /\ outputDirExists' = TRUE
            /\ cleanedDirExists' = (cleanedDirExists \/ args.clean_noise)
            /\ audio_files' = Filter(ListDir)
            /\ IF audio_files' = <<>>
                 THEN pc' = "returned" /\ exitReason' = "no_files" /\ idx' = idx
                 ELSE pc' = "loop" /\ exitReason' = exitReason /\ idx' = 1
  /\ success_count' = 0
  /\ failure_count' = 0
  /\ UNCHANGED <<folderExists, clean_noise, dirFiles, outFs, cleanedFs, run, args, whisperLoaded,
                 summarizerLoaded, it, sttCalls, faults, prevOut, prevArgs, chunkVars>>

\* lines 161-174: summarize and rewrite the artifact
Summarized(cn, tr, sm) ==
  [cn |-> cn, tr |-> tr, doSum |-> TRUE, crashed |-> sm.raised,
   summary |-> sm.value,
   out |-> IF sm.raised THEN tr.out
           ELSE WriteFile(tr.out, tr.output_path.name,
                          SummarizedLayout(sm.value, tr.out[tr.output_path.name]))]

NotSummarized(cn, tr) ==
  [cn |-> cn, tr |-> tr, doSum |-> FALSE, crashed |-> FALSE, summary |-> <<>>,
   out |-> tr.out]

\* lines 158-176
AfterTranscribe(a, cn, tr, sumOk) ==
  IF tr.success /\ a.summarize /\ tr.full_text # <<>>
    THEN Summarized(cn, tr, summarize_text(tr.full_text, MaxChunkLength, sumOk))
    ELSE NotSummarized(cn, tr)

\* line 156
AfterClean(a, out, cn, sttOk, sumOk) ==
  AfterTranscribe(a, cn,
                  transcribe_audio(cn.file_to_transcribe, out, cn.cleaned, sttOk),
                  sumOk)

\* lines 137-176: one iteration of the for loop
LoopBody(filename, a, out, cleaned, dn, sttOk, sumOk) ==
  AfterClean(a, out,
             IF a.clean_noise THEN CleanNoise(filename, cleaned, dn)
                              ELSE NoCleaning(filename, cleaned),
             sttOk, sumOk)

\* the service calls whose outcome the iteration depends on
CallsDenoise(filename, a, cleaned) ==
  a.clean_noise /\ ~Exists(cleaned, CleanedName(filename))

Raises(dn, sttOk, sumOk) ==
  (IF dn = "ok" THEN 0 ELSE 1) + (IF sttOk THEN 0 ELSE 1) + (IF sumOk THEN 0 ELSE 1)

ProcessFile(dn, sttOk, sumOk) ==
  /\ pc = "loop"
  /\ idx <= Len(audio_files)
  /\ dn # "ok" => CallsDenoise(audio_files[idx], args, cleanedFs)
  /\ faults + Raises(dn, sttOk, sumOk) <= MaxFaults
  /\ \E r \in {LoopBody(audio_files[idx], args, outFs, cleanedFs, dn, sttOk, sumOk)} :
        /\ ~sttOk => r.tr.invoked
        /\ ~sumOk => r.doSum
        /\ outFs' = r.out
        /\ cleanedFs' = r.cn.cleaned
        /\ success_count' = success_count + (IF r.tr.success THEN 1 ELSE 0)
        /\ failure_count' = failure_count + (IF r.tr.success THEN 0 ELSE 1)
        /\ sttCalls' = IF r.tr.invoked
                         THEN Append(sttCalls, r.cn.file_to_transcribe)
                         ELSE sttCalls
        /\ faults' = faults + Raises(dn, sttOk, sumOk)
        /\ it' = [filename |-> audio_files[idx], denoise |-> r.cn.status,
                  input |-> r.cn.file_to_transcribe,
                  sttInvoked |-> r.tr.invoked, sttRaised |-> r.tr.raised,
                  skipped |-> r.tr.skipped, success |-> r.tr.success,
                  output_path |-> r.tr.output_path, full_text |-> r.tr.full_text,
                  summInvoked |-> r.doSum,
                  summText |-> IF r.doSum THEN r.tr.full_text ELSE <<>>,
                  summRaised |-> ~sumOk, summary |-> r.summary,
                  outBefore |-> outFs, trOut |-> r.tr.out]
        /\ pc' = IF r.crashed THEN "crashed" ELSE "loop"
        /\ idx' = idx + 1
  /\ UNCHANGED <<folderExists, clean_noise, dirFiles, outputDirExists, cleanedDirExists, run,
                 args, whisperLoaded, summarizerLoaded, audio_files, exitReason,
                 prevOut, prevArgs, chunkVars>>

\* lines 178-181: the loop is over, the tally is printed
Tally ==
  /\ pc = "loop"
  /\ idx > Len(audio_files)
  /\ pc' = "done"
  /\ UNCHANGED <<folderExists, clean_noise, dirFiles, outputDirExists, cleanedDirExists, outFs,
                 cleanedFs, run, args, whisperLoaded, summarizerLoaded, audio_files,
                 idx, success_count, failure_count, it, sttCalls, faults,
                 exitReason, prevOut, prevArgs, chunkVars>>

\* the process ends; only the files on disk survive it
ProcessExit ==
  /\ pc \in {"returned", "done", "crashed"}
  /\ pc' = "idle"
  /\ run' = run + 1
  /\ prevOut' = outFs
  /\ prevArgs' = args
  /\ args' = NoArgs
  /\ ProcessMemoryReset
  /\ UNCHANGED <<folderExists, clean_noise, dirFiles, outputDirExists, cleanedDirExists,
                 outFs, cleanedFs, faults, chunkVars>>

Next ==
  \/ \E summarize \in BOOLEAN : ParseArgs(summarize)
  \/ LoadModels
  \/ CheckAndDiscover
  \/ \E dn \in DenoiseOutcomes, sttOk \in BOOLEAN, sumOk \in BOOLEAN :
       ProcessFile(dn, sttOk, sumOk)
  \/ Tally
  \/ ProcessExit

Spec == Init /\ [][Next]_vars

\* ------------------------------------------------------ chunking runs
Tokens == {"a", "b", " ", "\n"}

Texts == UNION {[1..n -> Tokens] : n \in 0..MaxTextLen}

MainIdle ==
  /\ folderExists = FALSE
  /\ clean_noise = FALSE
  /\ dirFiles = <<>>
  /\ outputDirExists = FALSE
  /\ cleanedDirExists = FALSE
  /\ outFs = EmptyFs
  /\ cleanedFs = EmptyFs
  /\ pc = "idle"
  /\ run = 0
  /\ args = NoArgs
  /\ whisperLoaded = FALSE
  /\ summarizerLoaded = FALSE
  /\ audio_files = <<>>
  /\ idx = 0
  /\ success_count = 0
  /\ failure_count = 0
  /\ it = NoIt
  /\ sttCalls = <<>>
  /\ faults = 0
  /\ exitReason = ""
  /\ prevOut = EmptyFs
  /\ prevArgs = NoArgs

ChunkInit ==
  /\ MainIdle
  /\ cText \in Texts
  /\ cL \in 1..MaxL
  /\ cChunks = <<>>
  /\ cDone = FALSE

\* summarize_text(cText, summarizer, cL) hands its chunks to the summarizer
CallSummarize ==
  /\ ~cDone
  /\ cChunks' = summarize_text(cText, cL, TRUE).chunks
  /\ cDone' = TRUE
  /\ UNCHANGED <<cText, cL, mainVars>>

ChunkNext == CallSummarize

ChunkSpec == ChunkInit /\ [][ChunkNext]_vars

\* ------------------------------------------------------------- properties
IterationDone == it.filename # <<>>

ArtifactOf(path) == OutputName(path)

RECURSIVE ConcatWords(_)
ConcatWords(chunks) ==
  IF chunks = <<>> THEN <<>> ELSE Split(chunks[1]) \o ConcatWords(Tail(chunks))

\* C1: a second run over the same folders with the same flags, no service
\* raising, leaves every artifact with the content it had after the first run.
C1_SecondRunKeepsArtifacts ==
  (pc = "done" /\ run >= 1 /\ faults = 0 /\ prevArgs = args) => outFs = prevOut

\* C2: when transcribe_audio is called for a file whose output path exists, the
\* speech-recognition service is not invoked, transcribe_audio writes nothing
\* and it returns success with that output path.
C2_SkipIfExists ==
  (IterationDone /\ Exists(it.outBefore, ArtifactOf(it.input)))
    => /\ ~it.sttInvoked
       /\ it.trOut = it.outBefore
       /\ it.success
       /\ it.output_path = Path("output", ArtifactOf(it.input))

C2_Witness ==
  /\ IterationDone
  /\ run >= 1
  /\ Exists(it.outBefore, ArtifactOf(it.input))
  /\ it.skipped

\* C3: when the speech-recognition service raises for a file, transcribe_audio
\* returns success = false, failure_count grows by one, success_count stays,
\* summarize_text is not called and the output folder is left as it was.
C3_SttRaiseStep ==
  (pc = "loop" /\ idx' = idx + 1 /\ it'.sttRaised)
    => /\ ~it'.success
       /\ failure_count' = failure_count + 1
       /\ success_count' = success_count
       /\ ~it'.summInvoked
       /\ outFs' = outFs

C3_SttRaiseLeavesArtifacts == [][C3_SttRaiseStep]_vars

C3_Witness ==
  /\ IterationDone
  /\ it.sttRaised
  /\ args.summarize
  /\ DOMAIN outFs # {}
  /\ failure_count = 1

\* C4: with clean_noise, when reading the source, the denoise service or the
\* write of the cleaned file raises, transcribe_audio still runs in that
\* iteration and gets the original input path.
C4_DenoiseFailureUsesOriginal ==
  (IterationDone /\ it.denoise \in (DenoiseOutcomes \ {"ok"}))
    => /\ it.input = Path("audio", it.filename)
       /\ it.output_path = Path("output", ArtifactOf(Path("audio", it.filename)))
       /\ it.sttInvoked \/ it.skipped

C4_Witness ==
  /\ IterationDone
  /\ args.clean_noise
  /\ it.denoise = "write_raises"
  /\ it.sttInvoked
  /\ it.success

\* C5: when the summarization service raises, summarize_text returns the
\* sentinel instead of raising, the file is counted as a success, not as a
\* failure, and its artifact gets the summarized layout with the sentinel as
\* the summary.
C5_SummaryFailureStep ==
  (pc = "loop" /\ idx' = idx + 1 /\ it'.summRaised)
    => /\ pc' = "loop"
       /\ it'.summary = Sentinel
       /\ success_count' = success_count + 1
       /\ failure_count' = failure_count
       /\ Exists(outFs', it'.output_path.name)
       /\ outFs'[it'.output_path.name]
            = SummaryMarker \o <<"\n">> \o Sentinel \o <<"\n", "\n">>
                \o TranscriptMarker \o <<"\n">> \o it'.trOut[it'.output_path.name]

C5_SummaryFailsSoft == [][C5_SummaryFailureStep]_vars

C5_Witness ==
  /\ IterationDone
  /\ it.summRaised
  /\ it.sttInvoked
  /\ success_count = 1
  /\ failure_count = 0

\* C6: the chunks summarize_text hands to the summarizer are in order, each has
\* between 1 and L words, only the last may have fewer than L, their words in
\* sequence are the words of the text, and a text without words gives no chunk.
C6_Chunking ==
  cDone =>
    /\ \A k \in 1..Len(cChunks) :
         /\ Len(Split(cChunks[k])) >= 1
         /\ Len(Split(cChunks[k])) <= cL
         /\ k < Len(cChunks) => Len(Split(cChunks[k])) = cL
    /\ ConcatWords(cChunks) = Split(cText)
    /\ Split(cText) = <<>> => cChunks = <<>>

C6_Witness ==
  /\ cDone
  /\ cL = 2
  /\ Len(cChunks) = 2
  /\ Len(Split(cChunks[2])) = 1

\* C7: when the input folder does not exist the driver ends with no model
\* loaded, no output or cleaned folder created and no file given to a service.
C7_NoWorkBeforeFolderCheck ==
  (pc = "returned" /\ exitReason = "no_folder")
    => /\ ~whisperLoaded
       /\ ~summarizerLoaded
       /\ ~outputDirExists
       /\ ~cleanedDirExists
       /\ sttCalls = <<>>

\* C8, as claimed: the text given to summarize_text is always the
\* speech-recognition service's unformatted full text for the file, for
\* freshly transcribed files and for skipped ones.  Stated for the files whose
\* artifact name no other discovered file shares.
OwnArtifact ==
  \A k \in 1..Len(audio_files) :
    audio_files[k] # it.filename
      => ArtifactOf(Path("audio", audio_files[k])) # it.output_path.name

C8_AlwaysServiceText ==
  (IterationDone /\ it.summInvoked /\ OwnArtifact)
    => it.summText = Whisper(AudioAt(it.input, cleanedFs)).text

\* C8, amended: for a freshly transcribed file the text given to summarize_text
\* is the service's unformatted full text; for a skipped file it is the
\* stripped content of the existing artifact after its last transcript marker.
C8_SummarizedText ==
  (IterationDone /\ it.summInvoked)
    => IF it.skipped
         THEN it.summText
                = Strip(LastPart(it.outBefore[it.output_path.name], TranscriptMarker))
         ELSE it.summText = Whisper(AudioAt(it.input, cleanedFs)).text

C8_Witness ==
  /\ IterationDone
  /\ it.summInvoked
  /\ it.skipped
  /\ run >= 1
  /\ ~prevArgs.summarize
  /\ it.summText = it.outBefore[it.output_path.name]
  /\ it.summText # Whisper(AudioAt(it.input, cleanedFs)).text

\* C9: whatever service calls raise, every discovered file is processed once in
\* listing order, success_count + failure_count is the number of files
\* processed so far, neither counter decreases, and the run reaches the tally
\* with success_count + failure_count the number of discovered files.
C9_Counts ==
  /\ pc # "crashed"
  /\ pc \in {"loop", "done"} =>
       /\ success_count + failure_count = idx - 1
       /\ idx - 1 <= Len(audio_files)
  /\ pc = "done" => success_count + failure_count = Len(audio_files)

C9_Step ==
  pc = "loop" =>
    /\ pc' = (IF idx' > Len(audio_files) /\ idx' = idx THEN "done" ELSE "loop")
    /\ success_count' >= success_count
    /\ failure_count' >= failure_count
    /\ idx' # idx => (idx' = idx + 1 /\ it'.filename = audio_files[idx])
    /\ audio_files' = audio_files

C9_NoFailureStopsBatch == [][C9_Step /\ C9_Counts']_vars

C9_Witness ==
  /\ pc = "done"
  /\ Len(audio_files) = 2
  /\ failure_count = 1
  /\ success_count = 1
  /\ faults = 2

\* C10: in a run that starts with an empty output folder and in which no
\* service raises, the speech-recognition service is invoked once for every
\* discovered file and every discovered file ends with an artifact of its own.
C10_OneArtifactPerFile ==
  (pc = "done" /\ run = 0 /\ faults = 0)
    => /\ Len(sttCalls) = Len(audio_files)
       /\ Cardinality(DOMAIN outFs) = Len(audio_files)

====
